---------------------------- MODULE Spec2Model ----------------------------
(***************************************************************************)
(* State-machine model of zep_memory_bot: the two graph normalizers        *)
(* (zep_graph.to_stlink_json and streamlit_app.zep_export_graph), the      *)
(* message chunker, the short-history window of the chat loops and the     *)
(* thread-id bootstrap.                                                    *)
(*                                                                         *)
(* Python values.  A value that dict.get may return is an option: <<>> is  *)
(* None (key absent), <<s>> is the string s.  Strings are TLA+ strings, so *)
(* f-strings are built with \o exactly as the code concatenates them.      *)
(***************************************************************************)
EXTENDS Integers, Sequences, FiniteSets, TLC

VARIABLES
    zep_nodes,      \* raw node records returned by the Zep graph query
    zep_edges,      \* raw edge records returned by the Zep graph query
    stlink,         \* last call of zep_graph.to_stlink_json
    graph_json,     \* last call of streamlit_app.zep_export_graph
    user_text,      \* the user's text of the current turn
    assistant_text, \* the model's answer of the current turn
    max_len,        \* the chunk limit chunk_text runs with (MAX_ZEP_CHARS)
    zep_thread,     \* the messages handed to Zep by the add-turn calls, in order
    app,            \* which chat front end runs: "cli" or "streamlit"
    running,        \* the chat loop has neither exited nor died
    short_history,  \* the short_history list of the chat loop
    messages,       \* st.session_state.messages, the displayed transcript
    convo,          \* history: the messages of the completed turns, in order
    passed,         \* history: the short_history handed to the last model call
    env_thread_id,  \* ENV_THREAD_ID
    thread_file,    \* content of THREAD_FILE (<<>>: no such file)
    zep_threads,    \* ids of the threads that exist in Zep
    zep_user,       \* USER_ID exists in Zep
    uuids,          \* number of uuid4 values drawn so far
    last_call       \* history: the last call of load_or_create_thread_id

graphVars == <<zep_nodes, zep_edges, stlink, graph_json>>
turnVars == <<user_text, assistant_text, max_len, zep_thread>>
chatVars == <<app, running, short_history, messages, convo, passed>>
threadVars == <<env_thread_id, thread_file, zep_threads, zep_user, uuids, last_call>>
vars == <<graphVars, turnVars, chatVars, threadVars>>

-----------------------------------------------------------------------------
(* Bounds of the graph model *)
MaxNodes == 2
MaxEdges == 2

(* Bounds of the chunking model *)
MaxTextLen == 6     \* longest user text
MaxChunkLen == 4    \* largest chunk limit

(* Bound of the chat model: turns started *)
MaxTurns == 4

(* Bound of the thread model: uuid4 values drawn *)
MaxUuids == 2

-----------------------------------------------------------------------------
(* Python helpers *)

None == <<>>
Some(s) == <<s>>

\* str(v): str(None) is the sentinel "None"
Str(v) == IF v = None THEN "None" ELSE v[1]

\* truth value of an optional string: None and "" are falsy
Truthy(v) == v # None /\ v[1] # ""

\* a or b
PyOr(a, b) == IF Truthy(a) THEN a ELSE b

Digits == <<"0", "1", "2", "3", "4", "5", "6", "7", "8", "9">>

RECURSIVE IntStr(_)
\* str(i) for a natural number i, as an f-string interpolates it
IntStr(i) == IF i < 10 THEN Digits[i + 1]
             ELSE IntStr(i \div 10) \o Digits[(i % 10) + 1]

\* hashlib.md5(value).hexdigest()[:12].  The digest is a deterministic
\* function of the string; it is modelled collision-free.
md5_hexdigest_12(value) == "#" \o value

\* a dict is an insertion-ordered sequence of <<key, value>> pairs
DictKeys(d) == {d[k][1] : k \in 1..Len(d)}
DictPos(d, key) == CHOOSE k \in 1..Len(d) : d[k][1] = key

\* variant: an assignment that would keep the first value stored under a key
DictSet_KeepFirst(d, key, value) ==
    IF key \in DictKeys(d) THEN d ELSE Append(d, <<key, value>>)

\* d[key] = value: an existing key keeps its position and takes the new value
DictSet(d, key, value) ==
    IF key \in DictKeys(d)
    THEN [d EXCEPT ![DictPos(d, key)] = <<key, value>>]
    ELSE Append(d, <<key, value>>)

\* d.get(key)
DictGet(d, key) == IF key \in DictKeys(d) THEN Some(d[DictPos(d, key)][2]) ELSE None

\* list(d.values())
DictValues(d) == [k \in 1..Len(d) |-> d[k][2]]

RECURSIVE DictById(_, _)
\* {x["data"]["id"]: x for x in items} built left to right, starting from d
DictById(d, items) ==
    IF items = <<>> THEN d
    ELSE DictById(DictSet(d, Head(items).id, Head(items)), Tail(items))

\* variant: no final pass, the accumulated list is returned as it is
DedupById_NoPass(items) == items

\* list({x["data"]["id"]: x for x in items}.values())
DedupById(items) == DictValues(DictById(<<>>, items))

-----------------------------------------------------------------------------
(* Raw records *)

EmptyData ==
    [id |-> None, label |-> None, name |-> None,
     source |-> None, target |-> None, relationship |-> None]

Kinds == {"dict", "object"}

NodeData(id, label, name) ==
    [EmptyData EXCEPT !.id = id, !.label = label, !.name = name]

EdgeData(id, source, target, label) ==
    [EmptyData EXCEPT !.id = id, !.source = source, !.target = target, !.label = label]


\* The raw records the graph query may return.  A record is a dict carrying a
\* "data" mapping or an SDK object carrying a .data attribute.
RawNodes ==
    { [kind |-> "dict",   data |-> NodeData(Some("None"), Some("Alice"), None)],
      [kind |-> "dict",   data |-> NodeData(Some("u1"), Some("Alice"), None)],
      [kind |-> "dict",   data |-> NodeData(Some("u1"), Some("Bob"), None)],
      [kind |-> "dict",   data |-> NodeData(None, None, Some("Al"))],
      [kind |-> "dict",   data |-> EmptyData],
      [kind |-> "object", data |-> NodeData(Some("u2"), Some("Alice"), None)] }

RawEdges ==
    { [kind |-> "dict",   data |-> EdgeData(Some("None"), Some("u1"), Some("u2"), Some("knows"))],
      [kind |-> "dict",   data |-> EdgeData(Some("e1"), Some("u1"), Some("u2"), Some("knows"))],
      [kind |-> "dict",   data |-> EdgeData(Some("e1"), Some("u2"), Some("u3"), None)],
      [kind |-> "dict",   data |-> EdgeData(None, Some("u3"), Some("u1"), Some("knows"))],
      [kind |-> "dict",   data |-> EdgeData(Some("None"), Some("None"), Some("u2"), Some("knows"))],
      [kind |-> "dict",   data |-> EdgeData(Some("e2"), Some("u1"), None, Some("knows"))],
      [kind |-> "object", data |-> EdgeData(Some("None"), Some("u1"), Some("u2"), Some("knows"))] }

SeqsUpTo(S, n) == UNION {[1..k -> S] : k \in 0..n}

-----------------------------------------------------------------------------
(* zep_graph.py *)

\* _hash(prefix, value): f"{prefix}_{h}"
hash(prefix, value) == prefix \o "_" \o md5_hexdigest_12(value)

\* _get_data(obj): the "data" mapping of a dict, the .data attribute of an object
get_data(obj) ==
    CASE obj.kind = "dict" -> obj.data
      [] obj.kind = "object" -> obj.data

\* `old_id and old_id != "None"` on the stringified id
StlinkRealId(old_id) == old_id # "" /\ old_id # "None"

\* label = data.get("label") or data.get("name") or "unknown"
StlinkLabel(data) == PyOr(PyOr(data.label, data.name), Some("unknown"))

\* variant: a node without a real id hashed from its label alone
StlinkNodeKey_LabelOnly(label, i) == label

\* the string hashed for a node without a real id: f"{label}|{i}"
StlinkNodeKey(label, i) == label \o "|" \o IntStr(i)

\* one iteration of the node loop: the entry appended to nodes_out
StlinkNode(n, i) ==
    LET data == get_data(n)
        old_id == Str(data.id)
        label == Str(StlinkLabel(data))
        stable_id == IF StlinkRealId(old_id) THEN old_id
                     ELSE hash("n", StlinkNodeKey(label, i))
    IN  [id |-> stable_id, label |-> label, raw |-> i]

StlinkNodesOut(nodes_in) ==
    [k \in 1..Len(nodes_in) |-> StlinkNode(nodes_in[k], k - 1)]

RECURSIVE StlinkUuidToStable(_, _)
\* uuid_to_stable after the first k iterations of the node loop
StlinkUuidToStable(nodes_in, k) ==
    IF k = 0 THEN <<>>
    ELSE LET d == StlinkUuidToStable(nodes_in, k - 1)
             old_id == Str(get_data(nodes_in[k]).id)
         IN  IF StlinkRealId(old_id)
             THEN DictSet(d, old_id, StlinkNode(nodes_in[k], k - 1).id)
             ELSE d

\* variant: the lenient edge loop, which skips nothing
StlinkSkipEdge_Lenient(source_uuid, target_uuid) == FALSE

\* the `continue` of the edge loop: an endpoint is absent, empty or "None"
StlinkSkipEdge(source_uuid, target_uuid) ==
    \/ source_uuid = "" \/ source_uuid = "None"
    \/ target_uuid = "" \/ target_uuid = "None"

\* uuid_to_stable.get(uuid) or _hash("n", uuid)
StlinkEndpoint(uuid_to_stable, uuid) ==
    Str(PyOr(DictGet(uuid_to_stable, uuid), Some(hash("n", uuid))))

\* rel = data.get("label") or data.get("relationship") or "related_to"
StlinkRel(data) == Str(PyOr(PyOr(data.label, data.relationship), Some("related_to")))

\* the string hashed for an edge without a real id
StlinkEdgeKey(source_id, rel, target_id, j) ==
    source_id \o "|" \o rel \o "|" \o target_id \o "|" \o IntStr(j)

\* one iteration of the edge loop: <<>> when the edge is skipped, else <<entry>>
StlinkEdge(e, j, uuid_to_stable) ==
    LET data == get_data(e)
        source_uuid == Str(data.source)
        target_uuid == Str(data.target)
        rel == StlinkRel(data)
        source_id == StlinkEndpoint(uuid_to_stable, source_uuid)
        target_id == StlinkEndpoint(uuid_to_stable, target_uuid)
        old_edge_id == Str(data.id)
        edge_id == IF StlinkRealId(old_edge_id) THEN old_edge_id
                   ELSE hash("e", StlinkEdgeKey(source_id, rel, target_id, j))
    IN  IF StlinkSkipEdge(source_uuid, target_uuid) THEN <<>>
        ELSE << [id |-> edge_id, source |-> source_id, target |-> target_id,
                 label |-> rel, raw |-> j] >>

RECURSIVE StlinkEdgesOut(_, _, _)
\* edges_out after the first k iterations of the edge loop
StlinkEdgesOut(edges_in, uuid_to_stable, k) ==
    IF k = 0 THEN <<>>
    ELSE StlinkEdgesOut(edges_in, uuid_to_stable, k - 1)
            \o StlinkEdge(edges_in[k], k - 1, uuid_to_stable)

\* to_stlink_json(zep_nodes, zep_edges).  nodes_out and edges_out are the lists
\* accumulated by the two loops, nodes and edges the returned, de-duplicated
\* lists.  The field raw of an entry is the position of the raw record it was
\* built from; it is not part of the JSON.
to_stlink_json(nodes_in, edges_in) ==
    LET nodes_out == StlinkNodesOut(nodes_in)
        uuid_to_stable == StlinkUuidToStable(nodes_in, Len(nodes_in))
        edges_out == StlinkEdgesOut(edges_in, uuid_to_stable, Len(edges_in))
    IN  [called |-> TRUE,
         nodes_out |-> nodes_out, edges_out |-> edges_out,
         nodes |-> DedupById(nodes_out), edges |-> DedupById(edges_out)]

-----------------------------------------------------------------------------
(* streamlit_app.py: zep_export_graph *)

\* _stable_hash_id(prefix, value)
stable_hash_id(prefix, value) == prefix \o "_" \o md5_hexdigest_12(value)

\* data = getattr(n, "data", None) or n.get("data", {}) if isinstance(n, dict) else {}
\* parses as (... or ...) if isinstance(n, dict) else {}
ExportData(n) == IF n.kind = "dict" THEN n.data ELSE EmptyData

\* label = data.get("label") or "unknown"
ExportLabel(data) == Str(PyOr(data.label, Some("unknown")))

\* `old_id and old_id != "None"` on the raw id
ExportRealId(old_id) == Truthy(old_id) /\ old_id # Some("None")

\* one iteration of the node loop: the entry appended to nodes_out
ExportNode(n, i) ==
    LET data == ExportData(n)
        label == ExportLabel(data)
    IN  [id |-> stable_hash_id("n", label), label |-> label, raw |-> i]

ExportNodesOut(nodes_in) ==
    [k \in 1..Len(nodes_in) |-> ExportNode(nodes_in[k], k - 1)]

RECURSIVE ExportUuidToStable(_, _)
\* uuid_to_stable after the first k iterations of the node loop
ExportUuidToStable(nodes_in, k) ==
    IF k = 0 THEN <<>>
    ELSE LET d == ExportUuidToStable(nodes_in, k - 1)
             old_id == ExportData(nodes_in[k]).id
         IN  IF ExportRealId(old_id)
             THEN DictSet(d, Str(old_id), ExportNode(nodes_in[k], k - 1).id)
             ELSE d

\* uuid_to_stable.get(uuid) or _stable_hash_id("n", uuid)
ExportEndpoint(uuid_to_stable, uuid) ==
    Str(PyOr(DictGet(uuid_to_stable, uuid), Some(stable_hash_id("n", uuid))))

\* rel = data.get("label") or "related_to"
ExportRel(data) == Str(PyOr(data.label, Some("related_to")))

\* one iteration of the edge loop: the entry appended to edges_out
ExportEdge(e, j, uuid_to_stable) ==
    LET data == ExportData(e)
        source_uuid == Str(data.source)
        target_uuid == Str(data.target)
        rel == ExportRel(data)
        source_id == ExportEndpoint(uuid_to_stable, source_uuid)
        target_id == ExportEndpoint(uuid_to_stable, target_uuid)
        edge_id == stable_hash_id("e", source_id \o "|" \o rel \o "|" \o target_id)
    IN  [id |-> edge_id, source |-> source_id, target |-> target_id,
         label |-> rel, raw |-> j]

ExportEdgesOut(edges_in, uuid_to_stable) ==
    [k \in 1..Len(edges_in) |-> ExportEdge(edges_in[k], k - 1, uuid_to_stable)]

\* the normalization of zep_export_graph on the lists the two searches returned
zep_export_graph(nodes_in, edges_in) ==
    LET nodes_out == ExportNodesOut(nodes_in)
        uuid_to_stable == ExportUuidToStable(nodes_in, Len(nodes_in))
        edges_out == ExportEdgesOut(edges_in, uuid_to_stable)
    IN  [called |-> TRUE,
         nodes_out |-> nodes_out, edges_out |-> edges_out,
         nodes |-> DedupById(nodes_out), edges |-> DedupById(edges_out)]

-----------------------------------------------------------------------------
(* The graph exports as a state machine *)

NotCalled ==
    [called |-> FALSE, nodes_out |-> <<>>, edges_out |-> <<>>,
     nodes |-> <<>>, edges |-> <<>>]

\* no raw lists fetched, no export made
IdleGraph ==
    /\ zep_nodes = <<>>
    /\ zep_edges = <<>>
    /\ stlink = NotCalled
    /\ graph_json = NotCalled

\* no turn under way
IdleTurn ==
    /\ user_text = <<>>
    /\ assistant_text = <<>>
    /\ max_len = MaxChunkLen
    /\ zep_thread = <<>>

\* no chat front end started
IdleChat ==
    /\ app = "streamlit"
    /\ running = FALSE
    /\ short_history = <<>>
    /\ messages = <<>>
    /\ convo = <<>>
    /\ passed = [turn |-> 0, history |-> <<>>]

NoCall ==
    [event |-> "none", result |-> "", created |-> None,
     file_before |-> None, file_after |-> None,
     threads_before |-> {}, made_before |-> {}, made_after |-> {}]

\* no thread bootstrap run
IdleThread ==
    /\ env_thread_id = None
    /\ thread_file = None
    /\ zep_threads = {}
    /\ zep_user = TRUE
    /\ uuids = 0
    /\ last_call = NoCall

InitGraph ==
    /\ zep_nodes \in SeqsUpTo(RawNodes, MaxNodes)
    /\ zep_edges \in SeqsUpTo(RawEdges, MaxEdges)
    /\ stlink = NotCalled
    /\ graph_json = NotCalled
    /\ IdleTurn
    /\ IdleChat
    /\ IdleThread

\* zep_graph.main: normalize the fetched lists (once per fetch)
ToStlinkJson ==
    /\ ~stlink.called
    /\ stlink' = to_stlink_json(zep_nodes, zep_edges)
    /\ UNCHANGED <<zep_nodes, zep_edges, graph_json>>
    /\ UNCHANGED <<turnVars, chatVars, threadVars>>

\* the "Refresh graph from Zep" button (once per fetch)
ZepExportGraph ==
    /\ ~graph_json.called
    /\ graph_json' = zep_export_graph(zep_nodes, zep_edges)
    /\ UNCHANGED <<zep_nodes, zep_edges, stlink>>
    /\ UNCHANGED <<turnVars, chatVars, threadVars>>

NextGraph == ToStlinkJson \/ ZepExportGraph

SpecGraph == InitGraph /\ [][NextGraph]_vars

-----------------------------------------------------------------------------
(* Properties of the graph exports *)

IdsOf(items) == {items[k].id : k \in 1..Len(items)}

NoDupIds(items) ==
    \A a, b \in 1..Len(items) : a # b => items[a].id # items[b].id

\* position of the last entry of items that carries id
LastWithId(items, id) ==
    CHOOSE k \in 1..Len(items) :
        /\ items[k].id = id
        /\ \A m \in 1..Len(items) : items[m].id = id => m <= k

Exports == {stlink, graph_json}

\* the "data" mapping a raw record exposes, whatever its kind
RawData(r) == r.data

\* a raw field holding a real value: present, non-empty and not the sentinel
RealValue(v) == v # None /\ v[1] # "" /\ v[1] # "None"

\* C1: in the graph returned by either normalizer no two nodes and no two
\* edges share an id, and the number of returned nodes (edges) is the number
\* of distinct ids computed in the node (edge) pass.
C1_UniqueIds ==
    \A g \in Exports :
        /\ NoDupIds(g.nodes)
        /\ NoDupIds(g.edges)
        /\ Len(g.nodes) = Cardinality(IdsOf(g.nodes_out))
        /\ Len(g.edges) = Cardinality(IdsOf(g.edges_out))

\* both normalizers ran on lists in which node ids and edge ids repeat
C1_Witness ==
    \A g \in Exports :
        /\ g.called
        /\ Len(g.nodes) < Len(g.nodes_out)
        /\ Len(g.edges) < Len(g.edges_out)

\* C2: the source and the target of every returned edge is the id of a
\* returned node or the hash of that edge's own raw endpoint string.
C2_EndpointsContentDerived ==
    \A g \in Exports :
        \A k \in 1..Len(g.edges) :
            LET e == g.edges[k]
                raw == RawData(zep_edges[e.raw + 1])
            IN  /\ \/ e.source \in IdsOf(g.nodes)
                   \/ e.source = "n_" \o md5_hexdigest_12(Str(raw.source))
                /\ \/ e.target \in IdsOf(g.nodes)
                   \/ e.target = "n_" \o md5_hexdigest_12(Str(raw.target))

\* the occurrences of raw endpoint values in the edges built by the calls:
\* <<raw endpoint string, id it was resolved to>>
Occurrences(g) ==
    UNION { { <<Str(RawData(zep_edges[g.edges_out[k].raw + 1]).source), g.edges_out[k].source>>,
              <<Str(RawData(zep_edges[g.edges_out[k].raw + 1]).target), g.edges_out[k].target>> }
            : k \in 1..Len(g.edges_out) }

\* the raw endpoint string matches the real id of some raw node
MatchesNode(uuid) ==
    \E k \in 1..Len(zep_nodes) :
        /\ RealValue(RawData(zep_nodes[k]).id)
        /\ RawData(zep_nodes[k]).id = Some(uuid)

\* C3: two occurrences of the same raw endpoint value that matches no raw
\* node's real id resolve to the same synthesized id, within a call and
\* across the calls of the two normalizers.
C3_SameEndpointSameId ==
    \A o1, o2 \in Occurrences(stlink) \cup Occurrences(graph_json) :
        (o1[1] = o2[1] /\ ~MatchesNode(o1[1])) => o1[2] = o2[2]

\* the example: two raw nodes with the sentinel id and one label, one raw
\* edge with the sentinel id whose endpoints are real and match no node
C4_Case ==
    /\ Len(zep_nodes) = 2
    /\ Len(zep_edges) = 1
    /\ \A k \in 1..2 :
          /\ ~RealValue(RawData(zep_nodes[k]).id)
          /\ Truthy(RawData(zep_nodes[k]).label)
    /\ RawData(zep_nodes[1]).label = RawData(zep_nodes[2]).label
    /\ ~RealValue(RawData(zep_edges[1]).id)
    /\ RealValue(RawData(zep_edges[1]).source)
    /\ RealValue(RawData(zep_edges[1]).target)
    /\ ~MatchesNode(Str(RawData(zep_edges[1]).source))
    /\ ~MatchesNode(Str(RawData(zep_edges[1]).target))

\* the one edge of the example: endpoints synthesized from its raw endpoints
\* and different from every returned node id
C4_Edge ==
    /\ Len(stlink.edges) = 1
    /\ stlink.edges[1].source = "n_" \o md5_hexdigest_12(Str(RawData(zep_edges[1]).source))
    /\ stlink.edges[1].target = "n_" \o md5_hexdigest_12(Str(RawData(zep_edges[1]).target))
    /\ stlink.edges[1].source \notin IdsOf(stlink.nodes)
    /\ stlink.edges[1].target \notin IdsOf(stlink.nodes)

\* C4 as claimed: to_stlink_json returns exactly one node for the shared
\* label (the second raw node overwrites the first) and the one edge.
C4_DuplicateLabelCollapses ==
    (stlink.called /\ C4_Case) =>
        /\ Len(stlink.nodes) = 1
        /\ stlink.nodes[1].label = Str(RawData(zep_nodes[1]).label)
        /\ C4_Edge

\* C4 as amended: to_stlink_json returns both nodes, each carrying the shared
\* label under its own id, and the one edge; in general every raw node without
\* a real id is returned as a node of its own.
C4_DuplicateLabelKept ==
    stlink.called =>
        /\ C4_Case =>
              /\ Len(stlink.nodes) = 2
              /\ stlink.nodes[1].id # stlink.nodes[2].id
              /\ \A p \in 1..2 : stlink.nodes[p].label = Str(RawData(zep_nodes[1]).label)
              /\ C4_Edge
        /\ \A k \in 1..Len(zep_nodes) :
              ~RealValue(RawData(zep_nodes[k]).id) =>
                  Cardinality({p \in 1..Len(stlink.nodes) : stlink.nodes[p].raw = k - 1}) = 1

C4_Witness == stlink.called /\ C4_Case

\* the label the claim gives a raw node: label, else name, else "unknown"
ClaimedLabel(data) ==
    IF Truthy(data.label) THEN data.label[1]
    ELSE IF Truthy(data.name) THEN data.name[1]
    ELSE "unknown"

\* C5: in both normalizers the canonical node of every raw node carries the
\* record's label if present and non-empty, else its name, else "unknown".
C5_LabelFallback ==
    \A g \in Exports :
        g.called =>
            /\ Len(g.nodes_out) = Len(zep_nodes)
            /\ \A k \in 1..Len(zep_nodes) :
                  g.nodes_out[k].label = ClaimedLabel(RawData(zep_nodes[k]))

\* both endpoints of a raw edge are real
RealEndpoints(r) == RealValue(RawData(r).source) /\ RealValue(RawData(r).target)

IsRealEdge(r) == RealEndpoints(r)

\* positions (0-based) of the raw edges with two real endpoints
RealEdgePositions == {j \in 0..(Len(zep_edges) - 1) : RealEndpoints(zep_edges[j + 1])}

\* no two raw edges with real endpoints carry the same real id
NoRealEdgeIdCollision ==
    \A a, b \in RealEdgePositions :
        (a # b /\ RealValue(RawData(zep_edges[a + 1]).id))
            => RawData(zep_edges[a + 1]).id # RawData(zep_edges[b + 1]).id

\* what an edge list resolves its endpoints to, in order
EndpointsOf(items) ==
    [k \in 1..Len(items) |-> <<items[k].source, items[k].target, items[k].label>>]

LastWriteWins(pass, returned) ==
    \A k \in 1..Len(pass) :
        LET hits == {p \in 1..Len(returned) : returned[p].id = pass[k].id}
        IN  /\ Cardinality(hits) = 1
            /\ \A p \in hits : returned[p] = pass[LastWithId(pass, pass[k].id)]

\* C7: de-duplication in to_stlink_json is last-write-wins, for nodes and for
\* edges; entries with other ids are returned as built.
C7_LastWriteWins ==
    /\ LastWriteWins(stlink.nodes_out, stlink.nodes)
    /\ LastWriteWins(stlink.edges_out, stlink.edges)
    /\ \A p \in 1..Len(stlink.nodes) :
          \E k \in 1..Len(stlink.nodes_out) : stlink.nodes[p] = stlink.nodes_out[k]
    /\ \A p \in 1..Len(stlink.edges) :
          \E k \in 1..Len(stlink.edges_out) : stlink.edges[p] = stlink.edges_out[k]

\* two raw nodes share a real id under different labels, and two raw edges
\* share a real id under different endpoints
C7_Witness ==
    /\ stlink.called
    /\ \E a, b \in 1..Len(stlink.nodes_out) :
          /\ a < b
          /\ stlink.nodes_out[a].id = stlink.nodes_out[b].id
          /\ stlink.nodes_out[a].label # stlink.nodes_out[b].label
    /\ \E a, b \in 1..Len(stlink.edges_out) :
          /\ a < b
          /\ stlink.edges_out[a].id = stlink.edges_out[b].id
          /\ stlink.edges_out[a].source # stlink.edges_out[b].source

-----------------------------------------------------------------------------
(* streamlit_app.py: chunk_text and zep_add_turn.  A text is a sequence of    *)
(* characters.                                                                *)

Chars == {"a", " ", "\n"}
Whitespace == {" ", "\n"}

Texts(n) == UNION {[1..k -> Chars] : k \in 0..n}

\* the separator of text.split("\n\n")
ParaSep == <<"\n", "\n">>

RECURSIVE Split(_)
\* text.split("\n\n"): cut at the leftmost separators, left to right
Split(text) ==
    LET at == {i \in 1..(Len(text) - 1) : SubSeq(text, i, i + 1) = ParaSep}
    IN  IF at = {} THEN <<text>>
        ELSE LET i == CHOOSE x \in at : \A y \in at : x <= y
             IN  <<SubSeq(text, 1, i - 1)>> \o Split(SubSeq(text, i + 2, Len(text)))

RECURSIVE Strip(_)
\* s.strip()
Strip(s) ==
    IF s = <<>> THEN s
    ELSE IF Head(s) \in Whitespace THEN Strip(Tail(s))
    ELSE IF s[Len(s)] \in Whitespace THEN Strip(SubSeq(s, 1, Len(s) - 1))
    ELSE s

\* variant: a slice one character too long, p[:max_len + 1]
TakeChunk_OneMore(p, limit) == SubSeq(p, 1, limit + 1)

\* p[:max_len]
TakeChunk(p, limit) == SubSeq(p, 1, limit)

\* p[max_len:]
DropChunk(p, limit) == SubSeq(p, limit + 1, Len(p))

RECURSIVE SliceLong(_, _, _)
\* while len(p) > max_len: parts.append(p[:max_len]); p = p[max_len:]
\* returns <<parts, p>>
SliceLong(parts, p, limit) ==
    IF Len(p) > limit
    THEN SliceLong(Append(parts, TakeChunk(p, limit)), DropChunk(p, limit), limit)
    ELSE <<parts, p>>

\* one iteration of the paragraph loop on the state <<parts, current>>
ChunkStep(parts, current, p, limit) ==
    IF Strip(p) = <<>> THEN <<parts, current>>
    ELSE LET candidate == IF current # <<>> THEN Strip(current \o ParaSep \o p) ELSE p
         IN  IF Len(candidate) <= limit THEN <<parts, candidate>>
             ELSE LET flushed == IF current # <<>> THEN Append(parts, current) ELSE parts
                      sliced == SliceLong(flushed, p, limit)
                  IN  <<sliced[1], IF sliced[2] # <<>> THEN sliced[2] ELSE <<>> >>

RECURSIVE ChunkLoop(_, _, _, _)
\* the paragraph loop and the final flush
ChunkLoop(parts, current, paras, limit) ==
    IF paras = <<>>
    THEN IF current # <<>> THEN Append(parts, current) ELSE parts
    ELSE LET st == ChunkStep(parts, current, Head(paras), limit)
         IN  ChunkLoop(st[1], st[2], Tail(paras), limit)

\* chunk_text(text, max_len)
chunk_text(text, limit) ==
    IF text = <<>> THEN << <<>> >>
    ELSE IF Len(text) <= limit THEN <<text>>
    ELSE ChunkLoop(<<>>, <<>>, Split(text), limit)

Message(role, content) == [role |-> role, content |-> content]

\* the msgs list zep_add_turn builds: user chunks, then assistant chunks
zep_add_turn(user, assistant, limit) ==
    LET user_chunks == chunk_text(user, limit)
        assistant_chunks == chunk_text(assistant, limit)
    IN  [k \in 1..Len(user_chunks) |-> Message("user", user_chunks[k])]
        \o [k \in 1..Len(assistant_chunks) |-> Message("assistant", assistant_chunks[k])]

\* the answers of the chunking model: short, at the limit, over it in one
\* paragraph and over it in several
Answers ==
    { <<>>, <<"a">>, <<"a", "a", "a", "a", "a", "a", "a", "a", "a", "a", "a">>,
      <<"a", "\n", "\n", "a", " ", "a", "\n", "\n", "\n", "a">> }

InitChunk ==
    /\ IdleGraph
    /\ IdleChat
    /\ IdleThread
    /\ user_text \in Texts(MaxTextLen)
    /\ assistant_text \in Answers
    /\ max_len \in 1..MaxChunkLen
    /\ zep_thread = <<>>

\* zep_add_turn(thread_id, user_text, assistant_text)
ZepAddTurn ==
    /\ zep_thread = <<>>
    /\ zep_thread' = zep_thread \o zep_add_turn(user_text, assistant_text, max_len)
    /\ UNCHANGED <<user_text, assistant_text, max_len>>
    /\ UNCHANGED <<graphVars, chatVars, threadVars>>

NextChunk == ZepAddTurn

SpecChunk == InitChunk /\ [][NextChunk]_vars

\* C8: every chunk of chunk_text is at most max_len long, so no message
\* zep_add_turn submits is longer than the limit.
C8_ChunksWithinLimit ==
    /\ \A k \in 1..Len(zep_thread) : Len(zep_thread[k].content) <= max_len
    /\ \A k \in 1..Len(chunk_text(user_text, max_len)) :
          Len(chunk_text(user_text, max_len)[k]) <= max_len

\* a turn was stored whose two texts exceed the limit: a user chunk joins two
\* paragraphs and a chunk is cut out of a long paragraph
C8_Witness ==
    /\ zep_thread # <<>>
    /\ Len(user_text) > max_len
    /\ Len(assistant_text) > max_len
    /\ \E k \in 1..Len(zep_thread) :
          /\ zep_thread[k].role = "user"
          /\ \E i \in 1..(Len(zep_thread[k].content) - 1) :
                SubSeq(zep_thread[k].content, i, i + 1) = ParaSep
    /\ \E k \in 1..Len(zep_thread) :
          /\ Len(zep_thread[k].content) = max_len
          /\ \A i \in 1..max_len : zep_thread[k].content[i] = "a"

-----------------------------------------------------------------------------
(* The chat loops: zep_memory_bot.main and the Streamlit chat handler *)

\* short_history keeps the last 6 messages
ShortHistoryMax == 6

\* variant: no truncation of the history
LastN_All(history, n) == history

\* history[-n:]
LastN(history, n) ==
    IF Len(history) <= n THEN history
    ELSE SubSeq(history, Len(history) - n + 1, Len(history))

\* short_history.append(user); short_history.append(assistant);
\* short_history = short_history[-6:]
UpdateShortHistory(history, user_msg, assistant_msg) ==
    LastN(Append(Append(history, user_msg), assistant_msg), ShortHistoryMax)

\* {"role": role, "content": content}; turn is the number of the turn the
\* message belongs to (history, not part of the dict)
ChatMsg(role, content, turn) == [role |-> role, content |-> content, turn |-> turn]

\* what the user types (stripped, not empty, not "exit") and what the model answers
UserTexts == { <<"a">>, <<"a", "a", "\n", "\n", "a", "a", "a", "a">> }
AnswerTexts == { <<"a">>, <<"a", " ", "a">> }

InitChat ==
    /\ IdleGraph
    /\ IdleThread
    /\ IdleTurn
    /\ app \in {"cli", "streamlit"}
    /\ running = TRUE
    /\ short_history = <<>>
    /\ messages = <<>>
    /\ convo = <<>>
    /\ passed = [turn |-> 0, history |-> <<>>]

\* guard of every turn: the loop is alive and the turn bound is not reached
CanTurn(front) == app = front /\ running /\ passed.turn < MaxTurns

\* the model call of a turn: call_openai / openai_answer receive short_history
ModelCall == passed' = [turn |-> passed.turn + 1, history |-> short_history]

\* the turn's answer is recorded in short_history
AnswerRecorded(u, a) ==
    LET t == passed.turn + 1
    IN  /\ short_history' = UpdateShortHistory(short_history,
                                ChatMsg("user", u, t), ChatMsg("assistant", a, t))
        /\ convo' = convo \o <<ChatMsg("user", u, t), ChatMsg("assistant", a, t)>>

\* zep_memory_bot.main, one pass of the loop that reaches the end
CliTurn(u, a) ==
    /\ CanTurn("cli")
    /\ user_text' = u
    /\ assistant_text' = a
    /\ ModelCall
    /\ AnswerRecorded(u, a)
    /\ zep_thread' = zep_thread \o <<Message("user", u), Message("assistant", a)>>
    /\ UNCHANGED <<max_len, app, running, messages>>
    /\ UNCHANGED <<graphVars, threadVars>>

\* get_zep_context or call_openai raises: the exception ends main
CliModelError(u) ==
    /\ CanTurn("cli")
    /\ user_text' = u
    /\ ModelCall
    /\ running' = FALSE
    /\ UNCHANGED <<assistant_text, max_len, zep_thread, app, short_history, messages, convo>>
    /\ UNCHANGED <<graphVars, threadVars>>

\* add_turn_to_zep raises after short_history was updated: the exception ends main
CliZepError(u, a) ==
    /\ CanTurn("cli")
    /\ user_text' = u
    /\ assistant_text' = a
    /\ ModelCall
    /\ AnswerRecorded(u, a)
    /\ running' = FALSE
    /\ UNCHANGED <<max_len, zep_thread, app, messages>>
    /\ UNCHANGED <<graphVars, threadVars>>

\* an empty line: `continue`
CliBlankInput ==
    /\ app = "cli" /\ running
    /\ user_text' = <<>>
    /\ UNCHANGED <<assistant_text, max_len, zep_thread, chatVars>>
    /\ UNCHANGED <<graphVars, threadVars>>

\* "exit" or "quit": `break`
CliExit ==
    /\ app = "cli" /\ running
    /\ running' = FALSE
    /\ UNCHANGED <<turnVars, app, short_history, messages, convo, passed>>
    /\ UNCHANGED <<graphVars, threadVars>>

\* the Streamlit chat handler, run to its end
StreamlitTurn(u, a) ==
    /\ CanTurn("streamlit")
    /\ user_text' = u
    /\ assistant_text' = a
    /\ messages' = messages \o <<ChatMsg("user", u, passed.turn + 1),
                                 ChatMsg("assistant", a, passed.turn + 1)>>
    /\ ModelCall
    /\ AnswerRecorded(u, a)
    /\ zep_thread' = zep_thread \o zep_add_turn(u, a, max_len)
    /\ UNCHANGED <<max_len, app, running>>
    /\ UNCHANGED <<graphVars, threadVars>>

\* openai_answer raises: the script run stops after the user message was shown
StreamlitModelError(u) ==
    /\ CanTurn("streamlit")
    /\ user_text' = u
    /\ messages' = Append(messages, ChatMsg("user", u, passed.turn + 1))
    /\ ModelCall
    /\ UNCHANGED <<assistant_text, max_len, zep_thread, app, running, short_history, convo>>
    /\ UNCHANGED <<graphVars, threadVars>>

\* zep_add_turn raises: the script run stops after short_history was updated
StreamlitZepError(u, a) ==
    /\ CanTurn("streamlit")
    /\ user_text' = u
    /\ assistant_text' = a
    /\ messages' = messages \o <<ChatMsg("user", u, passed.turn + 1),
                                 ChatMsg("assistant", a, passed.turn + 1)>>
    /\ ModelCall
    /\ AnswerRecorded(u, a)
    /\ UNCHANGED <<max_len, zep_thread, app, running>>
    /\ UNCHANGED <<graphVars, threadVars>>

NextChat ==
    \/ \E u \in UserTexts, a \in AnswerTexts : CliTurn(u, a)
    \/ \E u \in UserTexts : CliModelError(u)
    \/ \E u \in UserTexts, a \in AnswerTexts : CliZepError(u, a)
    \/ CliBlankInput
    \/ CliExit
    \/ \E u \in UserTexts, a \in AnswerTexts : StreamlitTurn(u, a)
    \/ \E u \in UserTexts : StreamlitModelError(u)
    \/ \E u \in UserTexts, a \in AnswerTexts : StreamlitZepError(u, a)

SpecChat == InitChat /\ [][NextChat]_vars

\* number of completed turns
Turns == Len(convo) \div 2

\* min(6, 2k)
WindowLen == IF 2 * Turns < 6 THEN 2 * Turns ELSE 6

\* C9: after k completed turns short_history is the last min(6, 2k) messages
\* of the conversation, user and assistant alternating, never more than 6; and
\* the history handed to the model for a turn holds no message of that turn.
C9_ShortHistoryWindow ==
    /\ Len(short_history) = WindowLen
    /\ Len(short_history) <= 6
    /\ \A i \in 1..Len(short_history) :
          /\ short_history[i] = convo[Len(convo) - WindowLen + i]
          /\ short_history[i].role = IF i % 2 = 1 THEN "user" ELSE "assistant"
    /\ \A i \in 1..Len(passed.history) : passed.history[i].turn < passed.turn

\* a fifth and later message pair pushed the oldest pair out, in either loop
C9_Witness ==
    /\ Turns >= 4
    /\ Len(passed.history) = 6
    /\ short_history[1].turn = 2
    /\ short_history[1].content = short_history[3].content

-----------------------------------------------------------------------------
(* streamlit_app.py: the thread-id bootstrap *)

\* str(uuid.uuid4()): a fresh id at every draw
NewTid == "t" \o IntStr(uuids + 1)

\* what zep.thread.get(thread_id) can do: TRUE, it returns; FALSE, it raises.
\* It raises when the thread does not exist, and it can raise as any call to
\* the service can (time-out, rejected request).
ThreadGetOutcomes(thread_id) ==
    IF thread_id \in zep_threads THEN {TRUE, FALSE} ELSE {FALSE}

\* thread_exists(thread_id): True when zep.thread.get returned, False on any exception
thread_exists(get_returned) == get_returned

\* what zep.thread.create can do for a user that exists or not
ThreadCreateOutcomes(user_exists) ==
    IF user_exists THEN {"ok", "error"} ELSE {"user not found", "error"}

\* ensure_user_exists: the user exists afterwards if it did or if a create call
\* succeeded; every exception is swallowed
ensure_user_exists(user_exists, made) == user_exists \/ made

CallRecord(event, result, created, file_after) ==
    [event |-> event, result |-> result, created |-> created,
     file_before |-> thread_file, file_after |-> file_after,
     threads_before |-> zep_threads,
     made_before |-> last_call.made_after,
     made_after |-> IF created = None THEN last_call.made_after
                    ELSE last_call.made_after \cup {created[1]}]

\* return of an id found in the environment or in the file
ReturnExisting(tid, user) ==
    /\ zep_user' = user
    /\ last_call' = CallRecord("returned", tid, None, thread_file)
    /\ UNCHANGED <<thread_file, zep_threads, uuids>>

\* zep.thread.create succeeded: write THREAD_FILE and return new_tid
ReturnCreated(user) ==
    /\ zep_user' = user
    /\ zep_threads' = zep_threads \cup {NewTid}
    /\ thread_file' = Some(NewTid)
    /\ uuids' = uuids + 1
    /\ last_call' = CallRecord("returned", NewTid, Some(NewTid), Some(NewTid))

\* zep.thread.create raised and the exception leaves the function
RaiseFromCreate(user) ==
    /\ zep_user' = user
    /\ uuids' = uuids + 1
    /\ last_call' = CallRecord("raised", "", None, thread_file)
    /\ UNCHANGED <<thread_file, zep_threads>>

\* load_or_create_thread_id(), for one choice of what the service answers
LoadOrCreateThreadId(made1, env_get, file_get, create1, made2, create2) ==
    LET user1 == ensure_user_exists(zep_user, made1)
        env_hit == Truthy(env_thread_id) /\ thread_exists(env_get)
        tid == IF thread_file = None THEN "" ELSE thread_file[1]
        file_hit == thread_file # None /\ tid # "" /\ thread_exists(file_get)
        user2 == ensure_user_exists(user1, made2)
    IN  /\ Truthy(env_thread_id) => env_get \in ThreadGetOutcomes(env_thread_id[1])
        /\ IF env_hit THEN ReturnExisting(env_thread_id[1], user1)
           ELSE /\ (thread_file # None /\ tid # "") => file_get \in ThreadGetOutcomes(tid)
                /\ IF file_hit THEN ReturnExisting(tid, user1)
                   ELSE /\ uuids < MaxUuids
                        /\ create1 \in ThreadCreateOutcomes(user1)
                        /\ CASE create1 = "ok" -> ReturnCreated(user1)
                             [] create1 = "error" -> RaiseFromCreate(user1)
                             [] create1 = "user not found" ->
                                  /\ create2 \in ThreadCreateOutcomes(user2)
                                  /\ IF create2 = "ok" THEN ReturnCreated(user2)
                                     ELSE RaiseFromCreate(user2)
        /\ UNCHANGED env_thread_id
        /\ UNCHANGED <<graphVars, turnVars, chatVars>>

\* a thread is deleted in Zep
ZepDeletesThread(t) ==
    /\ t \in zep_threads
    /\ zep_threads' = zep_threads \ {t}
    /\ UNCHANGED <<env_thread_id, thread_file, zep_user, uuids, last_call>>
    /\ UNCHANGED <<graphVars, turnVars, chatVars>>

InitThread ==
    /\ IdleGraph
    /\ IdleTurn
    /\ IdleChat
    /\ env_thread_id \in {None, Some("env")}
    /\ thread_file \in {None, Some(""), Some("t0")}
    /\ zep_threads \in SUBSET {"env", "t0"}
    /\ zep_user \in BOOLEAN
    /\ uuids = 0
    /\ last_call = NoCall

NextThread ==
    \/ \E made1, env_get, file_get, made2 \in BOOLEAN :
          \E create1, create2 \in {"ok", "user not found", "error"} :
              LoadOrCreateThreadId(made1, env_get, file_get, create1, made2, create2)
    \/ \E t \in zep_threads : ZepDeletesThread(t)

SpecThread == InitThread /\ [][NextThread]_vars

\* an environment thread id is set and that thread exists
EnvTakesPrecedence ==
    /\ Truthy(env_thread_id)
    /\ env_thread_id[1] \in last_call.threads_before

\* the file is written exactly by the calls that create a thread, with its id
FileWrittenOnCreate ==
    last_call.event # "none" =>
        /\ thread_file = last_call.file_after
        /\ last_call.created # None =>
              /\ last_call.event = "returned"
              /\ last_call.result = last_call.created[1]
              /\ last_call.file_after = last_call.created
        /\ last_call.created = None => last_call.file_after = last_call.file_before

\* a call that raises leaves the file as it was
FileKeptOnFailure ==
    last_call.event = "raised" => last_call.file_after = last_call.file_before

\* a call made while the thread an earlier call created and filed still exists
\* returns that thread's id and creates nothing
FiledThreadReused ==
    (/\ last_call.event # "none"
     /\ last_call.file_before # None
     /\ last_call.file_before[1] \in last_call.made_before
     /\ last_call.file_before[1] \in last_call.threads_before
     /\ ~EnvTakesPrecedence)
        => /\ last_call.event = "returned"
           /\ last_call.result = last_call.file_before[1]
           /\ last_call.created = None

\* C10: a call that creates a thread files its id, the file is written only
\* then, a failed creation leaves the file alone, and any later call made
\* while the filed thread exists (no environment thread taking precedence)
\* returns the filed id without creating another thread.
C10_ThreadIdReuse ==
    /\ FileWrittenOnCreate
    /\ FileKeptOnFailure
    /\ FiledThreadReused

=============================================================================
